---------------------------- MODULE Spec2Model ----------------------------
(***************************************************************************)
(* Green Supply Chain Dashboard: the aggregation / KPI / simulation core   *)
(* (src/models.py) and the page code that aggregates frames itself.        *)
(*                                                                         *)
(* Numbers.  Counts are Python ints.  Monetary columns (co2_saved,         *)
(* cost_savings) are floats with two decimals in the data; they are held   *)
(* here in hundredths.  Fractions given to run_scenario are held in        *)
(* percent (0.15 is 15).  Derived rates are exact rationals [n, d] in      *)
(* lowest terms; d = 0 encodes the IEEE results of a division by zero      *)
(* (n = 0 NaN, n = 1 inf, n = -1 -inf).                                    *)
(***************************************************************************)
EXTENDS Integers, Sequences, FiniteSets, TLC

VARIABLES
    data,            \* DataProcessor.data: the list given to the constructor
    df,              \* DataProcessor.df / the frame a page works on
    base_data,       \* SimulationEngine.base_data (None before construction)
    simulated_data,  \* run_scenario's local frame, as it is at return
    df_filtered,     \* a page's filtered view of df (None before filtering)
    heap,            \* the frame objects, by identity, where aliasing matters
    calls,           \* how many run_scenario calls the engine has served
    args,            \* the arguments of the last call
    op,              \* the last operation that ran
    result           \* what it returned or raised

vars ==
    <<data, df, base_data, simulated_data, df_filtered, heap, calls, args, op,
      result>>

-----------------------------------------------------------------------------
(* Bounds of the model *)

MaxRecs == 2

MaxCount == 2

-----------------------------------------------------------------------------
(* Arithmetic *)

Abs(x) == IF x < 0 THEN -x ELSE x

Max(a, b) == IF a >= b THEN a ELSE b

RECURSIVE GCD(_, _)
GCD(a, b) == IF b = 0 THEN a ELSE GCD(b, a % b)

\* the rational n/d for d > 0, in lowest terms
Rat(n, d) ==
    LET g == GCD(Abs(n), d)
    IN  [n |-> n \div g, d |-> d \div g]

Zero == [n |-> 0, d |-> 1]

RatInt(k) == [n |-> k, d |-> 1]

IsFinite(q) == q.d > 0

RatAdd(p, q) == Rat(p.n * q.d + q.n * p.d, p.d * q.d)

RatSub(p, q) == Rat(p.n * q.d - q.n * p.d, p.d * q.d)

\* p * a / b for integers a, b > 0
RatScale(p, a, b) == Rat(p.n * a, p.d * b)

RatLeq(p, q) == p.n * q.d <= q.n * p.d


\* a slip: round() in place of astype(int), halves rounded up
AsTypeInt_Round(num, den) == (2 * num + den) \div (2 * den)

\* astype(int): conversion of the float num/den (den > 0) to an integer,
\* which drops the fractional part (rounds toward zero)
AsTypeInt(num, den) ==
    IF num >= 0 THEN num \div den ELSE -((-num) \div den)

RECURSIVE SumSeq(_)
SumSeq(s) == IF s = <<>> THEN 0 ELSE Head(s) + SumSeq(Tail(s))

SeqUpTo(S, n) == UNION {[1..k -> S] : k \in 0..n}

-----------------------------------------------------------------------------
(* Records: PackagingData and the rows of the frames *)

\* the facilities of the sample data that produce records (the recycling
\* centers and collection points have base_production 0 and emit none);
\* latitude and longitude in 1/10000 degree
Facilities ==
    { [id |-> "BR001", name |-> "Brussels Brewery", type |-> "Brewery",
       lat |-> 508503, lon |-> 43517],
      [id |-> "DC001", name |-> "Antwerp Distribution",
       type |-> "Distribution Center", lat |-> 512194, lon |-> 44025] }

PackagingTypes == {"Glass Bottles", "Aluminum Cans"}

\* days, counted from the first day of the data
Dates == {1, 2}

\* the order pandas sorts string group keys in (by code point)
StrRank(k) ==
    CASE k = "BR001" -> 1
      [] k = "BR002" -> 2
      [] k = "CP001" -> 3
      [] k = "DC001" -> 4
      [] k = "DC002" -> 5
      [] k = "RC001" -> 6
      [] k = "RC002" -> 7
      [] k = "Antwerp Distribution" -> 1
      [] k = "Antwerp Recycling" -> 2
      [] k = "Brussels Brewery" -> 3
      [] k = "Brussels Recycling" -> 4
      [] k = "Ghent Distribution" -> 5
      [] k = "Leuven Brewery" -> 6
      [] k = "Leuven Collection" -> 7
      [] k = "Aluminum Cans" -> 1
      [] k = "Glass Bottles" -> 2
      [] k = "Brewery" -> 1
      [] k = "Collection Point" -> 2
      [] k = "Distribution Center" -> 3
      [] k = "Recycling Center" -> 4

\* kg CO2 per recovered unit, in hundredths
Co2Factor(packaging_type) ==
    CASE packaging_type = "Glass Bottles" -> 50
      [] packaging_type = "Aluminum Cans" -> 80
      [] OTHER -> 40

\* $ per recovered unit, in hundredths
CostFactor(packaging_type) ==
    CASE packaging_type = "Glass Bottles" -> 15
      [] packaging_type = "Aluminum Cans" -> 12
      [] OTHER -> 10

\* a record with the counts c = <<produced, returned, reused, recycled, waste>>
\* and the monetary columns the generator derives from them
MkRecord(date, f, packaging_type, c) ==
    [ date |-> date,
      facility_id |-> f.id,
      facility_name |-> f.name,
      facility_type |-> f.type,
      packaging_type |-> packaging_type,
      total_produced |-> c[1],
      total_returned |-> c[2],
      total_reused |-> c[3],
      total_recycled |-> c[4],
      total_waste |-> c[5],
      co2_saved |-> (c[3] + c[4]) * Co2Factor(packaging_type),
      cost_savings |-> (c[3] + c[4]) * CostFactor(packaging_type),
      latitude |-> f.lat,
      longitude |-> f.lon ]

\* counts that satisfy the record invariants, produced up to max
ValidCounts(max) ==
    { <<t[1], t[2], t[3], t[2] - t[3], t[1] - t[2]>> :
        t \in { u \in (0..max) \X (0..max) \X (0..max) :
                  u[2] <= u[1] /\ u[3] <= u[2] } }

\* counts that break one of the two identities (nothing in the loaders or
\* in DataProcessor checks them)
InvalidCounts == { <<2, 2, 1, 0, 0>>, <<2, 1, 1, 0, 2>> }

\* the base record of the worked example
WorkedExampleCounts == <<1000, 800, 560, 240, 200>>

IsValid(r) ==
    /\ r.total_produced >= 0 /\ r.total_returned >= 0 /\ r.total_reused >= 0
    /\ r.total_recycled >= 0 /\ r.total_waste >= 0
    /\ r.total_waste = r.total_produced - r.total_returned
    /\ r.total_returned = r.total_reused + r.total_recycled

\* a frame: the column labels are present or not, and the rows in order
Frame(rows) == [none |-> FALSE, columns |-> TRUE, rows |-> rows]

\* pd.DataFrame([]): no rows and no columns
EmptyFrame == [none |-> FALSE, columns |-> FALSE, rows |-> <<>>]

None == [none |-> TRUE, columns |-> FALSE, rows |-> <<>>]

\* frame[col].sum()
ColSum(rows, col) == SumSeq([i \in 1..Len(rows) |-> rows[i][col]])

Raise(error) == [kind |-> "raise", error |-> error]

-----------------------------------------------------------------------------
(* DataProcessor *)

\* a list comprehension over no items gives a frame without columns
ToDataframe(items) == IF items = <<>> THEN EmptyFrame ELSE Frame(items)

\* a slip: the fraction, not the percentage
GuardedRate_Fraction(part, total) ==
    IF total > 0 THEN Rat(part, total) ELSE Zero

\* a slip: the guard falls back to 100
GuardedRate_Else100(part, total) ==
    IF total > 0 THEN Rat(part * 100, total) ELSE RatInt(100)

\* (part / total * 100) if total > 0 else 0
GuardedRate(part, total) == IF total > 0 THEN Rat(part * 100, total) ELSE Zero

EfficiencyScore(reuse_rate, waste_rate, recovery_rate) ==
    RatAdd(RatAdd(RatScale(reuse_rate, 4, 10),
                  RatScale(RatSub(RatInt(100), waste_rate), 3, 10)),
           RatScale(recovery_rate, 3, 10))

calculate_kpis(frame) ==
    IF ~frame.columns THEN Raise("KeyError")
    ELSE
      LET total_produced == ColSum(frame.rows, "total_produced")
          total_returned == ColSum(frame.rows, "total_returned")
          total_reused == ColSum(frame.rows, "total_reused")
          total_waste == ColSum(frame.rows, "total_waste")
          reuse_rate == GuardedRate(total_reused, total_produced)
          waste_rate == GuardedRate(total_waste, total_produced)
          recovery_rate == GuardedRate(total_returned, total_produced)
      IN  [ kind |-> "KPIMetrics",
            reuse_rate |-> reuse_rate,
            waste_rate |-> waste_rate,
            recovery_rate |-> recovery_rate,
            co2_saved_total |-> ColSum(frame.rows, "co2_saved"),
            cost_savings_total |-> ColSum(frame.rows, "cost_savings"),
            efficiency_score |->
                EfficiencyScore(reuse_rate, waste_rate, recovery_rate) ]

\* series / series * 100 on a frame: no guard, IEEE division
SeriesRate(part, total) ==
    IF total > 0 THEN Rat(part * 100, total)
    ELSE IF total < 0 THEN Rat(-(part * 100), -total)
    ELSE [n |-> IF part > 0 THEN 1 ELSE IF part < 0 THEN -1 ELSE 0, d |-> 0]

\* the group key of a row: by is the list of columns given to groupby
KeyOf(r, by) ==
    CASE by = "facility" -> <<r.facility_id, r.facility_name>>
      [] by = "packaging_type" -> r.packaging_type
      [] by = "date" -> r.date
      [] by = "facility_type" -> r.facility_type

\* the sort order of the group keys: tuples lexicographically, strings by
\* code point, dates by time
RankOf(k, by) ==
    CASE by = "facility" -> StrRank(k[1]) * 10 + StrRank(k[2])
      [] by = "date" -> k
      [] OTHER -> StrRank(k)

\* a slip: the rows whose key is at most the group's key
Members_UpTo(rows, by, k) ==
    SelectSeq(rows, LAMBDA r : RankOf(KeyOf(r, by), by) <= RankOf(k, by))

\* the rows of a group, in frame order
Members(rows, by, k) == SelectSeq(rows, LAMBDA r : KeyOf(r, by) = k)

\* a slip: groupby(..., sort=False), the keys in order of first appearance
GroupKeys_Unsorted(rows, by) ==
    LET S == {KeyOf(rows[i], by) : i \in 1..Len(rows)}
        First(k) == CHOOSE i \in 1..Len(rows) :
                      /\ KeyOf(rows[i], by) = k
                      /\ \A j \in 1..(i - 1) : KeyOf(rows[j], by) # k
    IN  [i \in 1..Cardinality(S) |->
            CHOOSE k \in S :
                Cardinality({j \in S : First(j) < First(k)}) = i - 1]

\* groupby(...) sorts the group keys: the distinct keys in ascending order
GroupKeys(rows, by) ==
    LET S == {KeyOf(rows[i], by) : i \in 1..Len(rows)}
    IN  [i \in 1..Cardinality(S) |->
            CHOOSE k \in S :
                Cardinality({j \in S : RankOf(j, by) < RankOf(k, by)}) = i - 1]

\* a slip in the column table: total_waste summed from total_returned
SumColumns_WasteFromReturned(m) ==
    [ total_produced |-> ColSum(m, "total_produced"),
      total_returned |-> ColSum(m, "total_returned"),
      total_reused |-> ColSum(m, "total_reused"),
      total_waste |-> ColSum(m, "total_returned"),
      co2_saved |-> ColSum(m, "co2_saved"),
      cost_savings |-> ColSum(m, "cost_savings") ]

\* .agg({... 'sum'}) of the six columns the DataProcessor views sum
SumColumns(m) ==
    [ total_produced |-> ColSum(m, "total_produced"),
      total_returned |-> ColSum(m, "total_returned"),
      total_reused |-> ColSum(m, "total_reused"),
      total_waste |-> ColSum(m, "total_waste"),
      co2_saved |-> ColSum(m, "co2_saved"),
      cost_savings |-> ColSum(m, "cost_savings") ]

DataFrame(rows) == [kind |-> "DataFrame", rows |-> rows]

get_facility_performance(frame) ==
    IF ~frame.columns THEN Raise("KeyError")
    ELSE
      LET keys == GroupKeys(frame.rows, "facility")
          Row(k) ==
            LET t == SumColumns(Members(frame.rows, "facility", k))
            IN  [ facility_id |-> k[1], facility_name |-> k[2],
                  total_produced |-> t.total_produced,
                  total_returned |-> t.total_returned,
                  total_reused |-> t.total_reused,
                  total_waste |-> t.total_waste,
                  co2_saved |-> t.co2_saved,
                  cost_savings |-> t.cost_savings,
                  reuse_rate |-> SeriesRate(t.total_reused, t.total_produced),
                  waste_rate |-> SeriesRate(t.total_waste, t.total_produced),
                  recovery_rate |->
                      SeriesRate(t.total_returned, t.total_produced) ]
      IN  DataFrame([i \in 1..Len(keys) |-> Row(keys[i])])

get_packaging_performance(frame) ==
    IF ~frame.columns THEN Raise("KeyError")
    ELSE
      LET keys == GroupKeys(frame.rows, "packaging_type")
          Row(k) ==
            LET t == SumColumns(Members(frame.rows, "packaging_type", k))
            IN  [ packaging_type |-> k,
                  total_produced |-> t.total_produced,
                  total_returned |-> t.total_returned,
                  total_reused |-> t.total_reused,
                  total_waste |-> t.total_waste,
                  co2_saved |-> t.co2_saved,
                  cost_savings |-> t.cost_savings,
                  reuse_rate |-> SeriesRate(t.total_reused, t.total_produced),
                  waste_rate |-> SeriesRate(t.total_waste, t.total_produced) ]
      IN  DataFrame([i \in 1..Len(keys) |-> Row(keys[i])])

\* a slip: sort_values('date', ascending=False)
SortValuesDate_Descending(rows) ==
    LET Pos(i) ==
          1 + Cardinality({j \in 1..Len(rows) :
                \/ rows[j].date > rows[i].date
                \/ rows[j].date = rows[i].date /\ j < i})
    IN  [p \in 1..Len(rows) |->
            rows[CHOOSE i \in 1..Len(rows) : Pos(i) = p]]

\* sort_values('date'): ascending, rows with equal dates in their order
SortValuesDate(rows) ==
    LET Pos(i) ==
          1 + Cardinality({j \in 1..Len(rows) :
                \/ rows[j].date < rows[i].date
                \/ rows[j].date = rows[i].date /\ j < i})
    IN  [p \in 1..Len(rows) |->
            rows[CHOOSE i \in 1..Len(rows) : Pos(i) = p]]

get_time_series_data(frame) ==
    IF ~frame.columns THEN Raise("KeyError")
    ELSE
      LET keys == GroupKeys(frame.rows, "date")
          Row(k) ==
            LET t == SumColumns(Members(frame.rows, "date", k))
            IN  [ date |-> k,
                  total_produced |-> t.total_produced,
                  total_returned |-> t.total_returned,
                  total_reused |-> t.total_reused,
                  total_waste |-> t.total_waste,
                  co2_saved |-> t.co2_saved,
                  cost_savings |-> t.cost_savings,
                  reuse_rate |-> SeriesRate(t.total_reused, t.total_produced),
                  waste_rate |-> SeriesRate(t.total_waste, t.total_produced) ]
      IN  DataFrame(SortValuesDate([i \in 1..Len(keys) |-> Row(keys[i])]))

\* the performance summary of the reverse-logistics page: by facility type,
\* summing total_recycled as well
facility_type_summary(frame) ==
    IF ~frame.columns THEN Raise("KeyError")
    ELSE
      LET keys == GroupKeys(frame.rows, "facility_type")
          Row(k) ==
            LET m == Members(frame.rows, "facility_type", k)
                produced == ColSum(m, "total_produced")
            IN  [ facility_type |-> k,
                  total_produced |-> produced,
                  total_returned |-> ColSum(m, "total_returned"),
                  total_reused |-> ColSum(m, "total_reused"),
                  total_recycled |-> ColSum(m, "total_recycled"),
                  total_waste |-> ColSum(m, "total_waste"),
                  return_rate |->
                      SeriesRate(ColSum(m, "total_returned"), produced),
                  reuse_rate |->
                      SeriesRate(ColSum(m, "total_reused"), produced),
                  waste_rate |->
                      SeriesRate(ColSum(m, "total_waste"), produced) ]
      IN  DataFrame([i \in 1..Len(keys) |-> Row(keys[i])])

\* float comparison; NaN compares false with everything
RatLess(p, q) ==
    /\ ~(p.d = 0 /\ p.n = 0) /\ ~(q.d = 0 /\ q.n = 0)
    /\ p.n * q.d < q.n * p.d

IsNaN(q) == q.d = 0 /\ q.n = 0

\* frame.nlargest(n, 'reuse_rate'): the first n rows in descending order of
\* the column, rows with equal values in frame order (keep='first'), rows
\* with NaN after all others
NLargestReuseRate(n, rows) ==
    LET Before(j, i) ==
          \/ ~IsNaN(rows[j].reuse_rate) /\ IsNaN(rows[i].reuse_rate)
          \/ RatLess(rows[i].reuse_rate, rows[j].reuse_rate)
          \/ /\ ~RatLess(rows[j].reuse_rate, rows[i].reuse_rate)
             /\ IsNaN(rows[j].reuse_rate) = IsNaN(rows[i].reuse_rate)
             /\ j < i
        Pos(i) == 1 + Cardinality({j \in 1..Len(rows) : Before(j, i)})
        k == IF n < Len(rows) THEN n ELSE Len(rows)
    IN  [p \in 1..k |-> rows[CHOOSE i \in 1..Len(rows) : Pos(i) = p]]

\* the 5 of "Top 5 Facilities by Reuse Rate"
TopN == 5

\* main of the dashboard, after the guard on an empty selection:
\* facility_perf = processor.get_facility_performance();
\* top_facilities = facility_perf.nlargest(5, 'reuse_rate')
top_facilities(frame) ==
    LET facility_perf == get_facility_performance(frame)
    IN  IF facility_perf.kind = "raise" THEN facility_perf
        ELSE DataFrame(NLargestReuseRate(TopN, facility_perf.rows))

-----------------------------------------------------------------------------
(* The sustainability report *)

\* kg CO2 per unit not newly produced, in hundredths
co2_per_unit_avoided == 50

\* liters per unit; .get(packaging_type, 10)
water_per_unit_saved(packaging_type) ==
    CASE packaging_type = "Glass Bottles" -> 15
      [] packaging_type = "Aluminum Cans" -> 25
      [] packaging_type = "Plastic Bottles" -> 8
      [] packaging_type = "Cardboard Cartons" -> 5
      [] packaging_type = "Wooden Crates" -> 2
      [] OTHER -> 10

\* kWh per unit, in tenths; .get(packaging_type, 1.0)
energy_per_unit_saved(packaging_type) ==
    CASE packaging_type = "Glass Bottles" -> 8
      [] packaging_type = "Aluminum Cans" -> 25
      [] packaging_type = "Plastic Bottles" -> 6
      [] packaging_type = "Cardboard Cartons" -> 3
      [] packaging_type = "Wooden Crates" -> 1
      [] OTHER -> 10

\* reused plus recycled units of one packaging type
SavedUnits(rows, packaging_type) ==
    LET type_data == Members(rows, "packaging_type", packaging_type)
    IN  ColSum(type_data, "total_reused") + ColSum(type_data, "total_recycled")

\* a slip: the waste rate counted for the score, not against it
CircularScore_WasteNotInverted(reuse_rate, recycling_rate, waste_rate) ==
    RatAdd(RatAdd(RatScale(reuse_rate, 5, 10), RatScale(recycling_rate, 3, 10)),
           RatScale(waste_rate, 2, 10))

\* (reuse_rate * 0.5) + (recycling_rate * 0.3) + ((100 - waste_rate) * 0.2)
CircularScore(reuse_rate, recycling_rate, waste_rate) ==
    RatAdd(RatAdd(RatScale(reuse_rate, 5, 10), RatScale(recycling_rate, 3, 10)),
           RatScale(RatSub(RatInt(100), waste_rate), 2, 10))

\* calculate_environmental_impact(df): {} for an empty frame; the types of
\* df['packaging_type'].unique() are summed over here in sorted order, which
\* gives the same exact sum as the order of appearance
calculate_environmental_impact(frame) ==
    IF frame.rows = <<>> THEN [kind |-> "dict", empty |-> TRUE]
    ELSE
      LET total_produced == ColSum(frame.rows, "total_produced")
          total_returned == ColSum(frame.rows, "total_returned")
          total_reused == ColSum(frame.rows, "total_reused")
          total_recycled == ColSum(frame.rows, "total_recycled")
          total_waste == ColSum(frame.rows, "total_waste")
          total_co2_saved == ColSum(frame.rows, "co2_saved")
          reuse_rate == GuardedRate(total_reused, total_produced)
          recycling_rate == GuardedRate(total_recycled, total_produced)
          waste_rate == GuardedRate(total_waste, total_produced)
          recovery_rate == GuardedRate(total_returned, total_produced)
          total_co2_avoided ==
              (total_reused + total_recycled) * co2_per_unit_avoided
          types == GroupKeys(frame.rows, "packaging_type")
          water_saved ==
              SumSeq([i \in 1..Len(types) |->
                        SavedUnits(frame.rows, types[i])
                          * water_per_unit_saved(types[i])])
          energy_saved ==
              SumSeq([i \in 1..Len(types) |->
                        SavedUnits(frame.rows, types[i])
                          * energy_per_unit_saved(types[i])])
      IN  [ kind |-> "dict", empty |-> FALSE,
            total_produced |-> total_produced,
            total_returned |-> total_returned,
            total_reused |-> total_reused,
            total_recycled |-> total_recycled,
            total_waste |-> total_waste,
            reuse_rate |-> reuse_rate,
            recycling_rate |-> recycling_rate,
            waste_rate |-> waste_rate,
            recovery_rate |-> recovery_rate,
            co2_saved |-> Rat(total_co2_saved, 100 * 1000),
            co2_avoided |-> Rat(total_co2_avoided, 100 * 1000),
            water_saved |-> Rat(water_saved, 1000),
            energy_saved |-> Rat(energy_saved, 10),
            landfill_waste_avoided |-> total_returned,
            circular_score |->
                CircularScore(reuse_rate, recycling_rate, waste_rate) ]

-----------------------------------------------------------------------------
(* The pages' filters *)

\* a slip: the end of the range left out
InDateRange_ExclusiveEnd(r, date_range) ==
    date_range[1] <= r.date /\ r.date < date_range[2]

\* (df['date'] >= pd.Timestamp(start_date)) & (df['date'] <= pd.Timestamp(end_date))
InDateRange(r, date_range) ==
    date_range[1] <= r.date /\ r.date <= date_range[2]

\* the dashboard's "Apply filters": df[mask] keeps the rows of df whose mask
\* is true, in their order; the date is tested only if the date input
\* holds both ends of a range
apply_filters(frame, date_range, facility_types, packaging_types) ==
    Frame(SelectSeq(frame.rows, LAMBDA r :
            /\ Len(date_range) = 2 => InDateRange(r, date_range)
            /\ r.facility_type \in facility_types
            /\ r.packaging_type \in packaging_types))

\* the simulation page's period: the date only, the whole frame if the date
\* input does not hold both ends
select_period(frame, date_range) ==
    IF Len(date_range) = 2
    THEN Frame(SelectSeq(frame.rows, LAMBDA r : InDateRange(r, date_range)))
    ELSE frame

\* what st.date_input can return with min_value and max_value the first and
\* last date of the frame: a start alone, or a start and an end not before it
DateInputs(frame) ==
    LET ds == {frame.rows[i].date : i \in 1..Len(frame.rows)}
        lo == CHOOSE d \in ds : \A e \in ds : d <= e
        hi == CHOOSE d \in ds : \A e \in ds : e <= d
    IN  {<<a>> : a \in lo..hi}
          \cup {t \in (lo..hi) \X (lo..hi) : t[1] <= t[2]}

\* df[col].unique(), the options of a multiselect
Unique(frame, col) == {frame.rows[i][col] : i \in 1..Len(frame.rows)}

-----------------------------------------------------------------------------
(* SimulationEngine *)

\* co2_factor = 0.5 kg CO2 per unit, in hundredths
co2_factor == 50

\* cost_factor = 0.10 $ per unit, in hundredths
cost_factor == 10

\* a slip: the factor without its "1 +"
ProjectedReused_NoOne(total_reused, reuse_improvement) ==
    AsTypeInt(total_reused * reuse_improvement, 100)

\* (total_reused * (1 + reuse_improvement)).astype(int)
ProjectedReused(total_reused, reuse_improvement) ==
    AsTypeInt(total_reused * (100 + reuse_improvement), 100)

\* a slip: the reduction added instead of subtracted
ProjectedWaste_Plus(total_waste, waste_reduction) ==
    AsTypeInt(total_waste * (100 + waste_reduction), 100)

\* (total_waste * (1 - waste_reduction)).astype(int)
ProjectedWaste(total_waste, waste_reduction) ==
    AsTypeInt(total_waste * (100 - waste_reduction), 100)

\* (total_returned - total_reused).clip(lower=0)
ProjectedRecycled(total_returned, projected_reused) ==
    Max(total_returned - projected_reused, 0)

\* a slip: the additional reuse is booked as additional returns
SimulatedRow_MoreReturned(r, reuse_improvement, waste_reduction) ==
    LET reused == ProjectedReused(r.total_reused, reuse_improvement)
        waste == ProjectedWaste(r.total_waste, waste_reduction)
    IN  [r EXCEPT
           !.total_reused = reused,
           !.total_waste = waste,
           !.total_returned = r.total_returned + (reused - r.total_reused),
           !.total_recycled = r.total_recycled]

\* the row of simulated_data for the row r of base_data
SimulatedRow(r, reuse_improvement, waste_reduction) ==
    LET reused == ProjectedReused(r.total_reused, reuse_improvement)
        waste == ProjectedWaste(r.total_waste, waste_reduction)
        additional_reuse == reused - r.total_reused
        waste_reduction_amount == r.total_waste - waste
    IN  [r EXCEPT
           !.total_reused = reused,
           !.total_waste = waste,
           !.total_recycled = ProjectedRecycled(r.total_returned, reused),
           !.co2_saved =
               r.co2_saved
                 + (additional_reuse + waste_reduction_amount) * co2_factor,
           !.cost_savings =
               r.cost_savings
                 + (additional_reuse + waste_reduction_amount) * cost_factor]

Simulate(rows, reuse_improvement, waste_reduction) ==
    [i \in 1..Len(rows) |->
        SimulatedRow(rows[i], reuse_improvement, waste_reduction)]

calculate_scenario_kpis(rows) ==
    LET total_produced == ColSum(rows, "total_produced")
        total_reused == ColSum(rows, "total_reused")
        total_waste == ColSum(rows, "total_waste")
    IN  [ reuse_rate |-> GuardedRate(total_reused, total_produced),
          waste_rate |-> GuardedRate(total_waste, total_produced),
          co2_saved |-> ColSum(rows, "co2_saved"),
          cost_savings |-> ColSum(rows, "cost_savings") ]

\* a slip: the waste rate's change taken as new - base like the others
Improvements_WasteSign(base_kpis, new_kpis) ==
    [ reuse_rate_improvement |->
          RatSub(new_kpis.reuse_rate, base_kpis.reuse_rate),
      waste_rate_reduction |->
          RatSub(new_kpis.waste_rate, base_kpis.waste_rate),
      additional_co2_saved |-> new_kpis.co2_saved - base_kpis.co2_saved,
      additional_cost_savings |->
          new_kpis.cost_savings - base_kpis.cost_savings ]

\* a slip: the co2 delta taken as base - new
Improvements_Co2Sign(base_kpis, new_kpis) ==
    [ reuse_rate_improvement |->
          RatSub(new_kpis.reuse_rate, base_kpis.reuse_rate),
      waste_rate_reduction |->
          RatSub(base_kpis.waste_rate, new_kpis.waste_rate),
      additional_co2_saved |-> base_kpis.co2_saved - new_kpis.co2_saved,
      additional_cost_savings |->
          new_kpis.cost_savings - base_kpis.cost_savings ]

Improvements(base_kpis, new_kpis) ==
    [ reuse_rate_improvement |->
          RatSub(new_kpis.reuse_rate, base_kpis.reuse_rate),
      waste_rate_reduction |->
          RatSub(base_kpis.waste_rate, new_kpis.waste_rate),
      additional_co2_saved |-> new_kpis.co2_saved - base_kpis.co2_saved,
      additional_cost_savings |->
          new_kpis.cost_savings - base_kpis.cost_savings ]

run_scenario(base, reuse_improvement, waste_reduction) ==
    IF ~base.columns THEN Raise("KeyError")
    ELSE
      LET simulated == Simulate(base.rows, reuse_improvement, waste_reduction)
          base_kpis == calculate_scenario_kpis(base.rows)
          new_kpis == calculate_scenario_kpis(simulated)
      IN  [ kind |-> "ScenarioResult",
            base_metrics |-> base_kpis,
            projected_metrics |-> new_kpis,
            improvements |-> Improvements(base_kpis, new_kpis) ]

-----------------------------------------------------------------------------
(* generate_sample_data; fractions in percent *)

\* a slip: the draw used as it comes
Clip_None(x, lo, hi) == x

\* np.clip(x, lo, hi)
Clip(x, lo, hi) == IF x < lo THEN lo ELSE IF x > hi THEN hi ELSE x

\* the ends of random.randint for the facility's type; 0 for the others
BaseProductions(facility_type) ==
    CASE facility_type = "Brewery" -> {500, 2000}
      [] facility_type = "Distribution Center" -> {1000, 3000}
      [] OTHER -> {0}

\* 1 + 0.2 * sin(2 pi yday / 365) lies in 0.8 .. 1.2: the first day is taken
\* at the low end, the others at the high end
SeasonalFactor(date) == IF date = 1 THEN 80 ELSE 120

\* 1.0 on weekdays, 0.6 on weekends: the first day is a weekend day
WeeklyFactor(date) == IF date = 1 THEN 60 ELSE 100

\* draws of np.random.normal around the return rate and the reuse rate,
\* below, inside and above the clipped range
ReturnRateDraws == {-10, 85, 120}

ReuseRateDraws == {-20, 70, 130}

\* the body of the loop for one date, facility and packaging type: the
\* record appended when total_produced > 0, else nothing
GeneratedRecords(date, f, packaging_type, base_production, return_draw, reuse_draw) ==
    LET total_produced ==
          AsTypeInt(base_production * SeasonalFactor(date) * WeeklyFactor(date),
                    100 * 100)
        actual_return_rate == Clip(return_draw, 20, 98)
        total_returned == AsTypeInt(total_produced * actual_return_rate, 100)
        reuse_rate == Clip(reuse_draw, 10, 90)
        total_reused == AsTypeInt(total_returned * reuse_rate, 100)
        total_recycled == total_returned - total_reused
        total_waste == total_produced - total_returned
    IN  IF total_produced > 0
        THEN << MkRecord(date, f, packaging_type,
                         <<total_produced, total_returned, total_reused,
                           total_recycled, total_waste>>) >>
        ELSE <<>>

-----------------------------------------------------------------------------
(* Frames as objects.  A frame variable holds a reference; two variables    *)
(* that hold the same reference share every later column assignment.  The   *)
(* objects are named by the place that creates them.                        *)

Sites == {"load_data", "df_filtered", "base_data", "simulated_data"}

NoRef == "None"

\* a slip: no .copy(), the new name is bound to the same object
CopyRef_Alias(ref, site) == ref

\* frame.copy(): a new object, created at site
CopyRef(ref, site) == site

\* the heap after target = frame.copy()
Copy(h, ref, site) == [h EXCEPT ![CopyRef(ref, site)] = h[ref]]

\* frame[col], a Series
Column(h, ref, col) == [i \in 1..Len(h[ref].rows) |-> h[ref].rows[i][col]]

\* frame[col] = values, in place
SetColumn(h, ref, col, values) ==
    [h EXCEPT ![ref] =
        Frame([i \in 1..Len(h[ref].rows) |->
                 [h[ref].rows[i] EXCEPT ![col] = values[i]]])]

\* run_scenario statement by statement on the heap; self_base is the
\* reference self.base_data holds.  Gives the heap at return, the reference
\* of the local simulated_data, and the returned dict.
run_scenario_on_heap(h, self_base, reuse_improvement, waste_reduction) ==
    LET simulated_data_ref == CopyRef(self_base, "simulated_data")
        n == Len(h[self_base].rows)
        h0 == Copy(h, self_base, "simulated_data")
        h1 == SetColumn(h0, simulated_data_ref, "total_reused",
                [i \in 1..n |->
                   ProjectedReused(
                     Column(h0, simulated_data_ref, "total_reused")[i],
                     reuse_improvement)])
        h2 == SetColumn(h1, simulated_data_ref, "total_waste",
                [i \in 1..n |->
                   ProjectedWaste(
                     Column(h1, simulated_data_ref, "total_waste")[i],
                     waste_reduction)])
        h3 == SetColumn(h2, simulated_data_ref, "total_recycled",
                [i \in 1..n |->
                   ProjectedRecycled(
                     Column(h2, simulated_data_ref, "total_returned")[i],
                     Column(h2, simulated_data_ref, "total_reused")[i])])
        additional_reuse ==
            [i \in 1..n |->
               Column(h3, simulated_data_ref, "total_reused")[i]
                 - Column(h3, self_base, "total_reused")[i]]
        waste_reduction_amount ==
            [i \in 1..n |->
               Column(h3, self_base, "total_waste")[i]
                 - Column(h3, simulated_data_ref, "total_waste")[i]]
        h4 == SetColumn(h3, simulated_data_ref, "co2_saved",
                [i \in 1..n |->
                   Column(h3, self_base, "co2_saved")[i]
                     + (additional_reuse[i] + waste_reduction_amount[i])
                         * co2_factor])
        h5 == SetColumn(h4, simulated_data_ref, "cost_savings",
                [i \in 1..n |->
                   Column(h4, self_base, "cost_savings")[i]
                     + (additional_reuse[i] + waste_reduction_amount[i])
                         * cost_factor])
        base_kpis == calculate_scenario_kpis(h5[self_base].rows)
        new_kpis == calculate_scenario_kpis(h5[simulated_data_ref].rows)
    IN  [ heap |-> h5,
          simulated_data |-> simulated_data_ref,
          result |->
            [ kind |-> "ScenarioResult",
              base_metrics |-> base_kpis,
              projected_metrics |-> new_kpis,
              improvements |-> Improvements(base_kpis, new_kpis) ] ]

-----------------------------------------------------------------------------
(* Inputs *)

\* fractions given to run_scenario, in percent: the presets' 0.15 and 0.20,
\* no change, regressions, and values past the ends of the page's sliders
ReuseImprovements == {-150, -50, 0, 15, 50}

WasteReductions == {-50, 0, 20, 100, 150}

\* records of the frames the simulation runs on; run_scenario reads no key
SimRecords ==
    { MkRecord(1, f, "Glass Bottles", c) :
        f \in {x \in Facilities : x.id = "BR001"},
        c \in ValidCounts(MaxCount) \cup InvalidCounts
                \cup {WorkedExampleCounts} }

\* counts of the records the views group
AggCounts ==
    { <<0, 0, 0, 0, 0>>, <<2, 1, 1, 0, 1>>, <<2, 2, 1, 1, 0>>,
      <<2, 1, 1, 0, 2>> }

AggRecords ==
    { MkRecord(d, f, p, c) :
        d \in Dates, f \in Facilities, p \in PackagingTypes, c \in AggCounts }

NoResult == [kind |-> "none"]

MaxTopFacilities == 6

\* seven facilities of the sample data, each with the counts of its first
\* record: reuse rates 50, 100, 50, 0, 50, 100 and 25 percent
TopFacilities ==
    { <<[id |-> "BR001", name |-> "Brussels Brewery", type |-> "Brewery",
         lat |-> 508503, lon |-> 43517], <<2, 2, 1, 1, 0>>>>,
      <<[id |-> "BR002", name |-> "Leuven Brewery", type |-> "Brewery",
         lat |-> 508798, lon |-> 47005], <<2, 2, 2, 0, 0>>>>,
      <<[id |-> "DC001", name |-> "Antwerp Distribution",
         type |-> "Distribution Center", lat |-> 512194, lon |-> 44025],
        <<2, 1, 1, 0, 1>>>>,
      <<[id |-> "DC002", name |-> "Ghent Distribution",
         type |-> "Distribution Center", lat |-> 510500, lon |-> 37303],
        <<2, 1, 0, 1, 1>>>>,
      <<[id |-> "RC001", name |-> "Brussels Recycling",
         type |-> "Recycling Center", lat |-> 508465, lon |-> 43524],
        <<4, 3, 2, 1, 1>>>>,
      <<[id |-> "RC002", name |-> "Antwerp Recycling",
         type |-> "Recycling Center", lat |-> 512213, lon |-> 44051],
        <<1, 1, 1, 0, 0>>>>,
      <<[id |-> "CP001", name |-> "Leuven Collection",
         type |-> "Collection Point", lat |-> 508798, lon |-> 47005],
        <<4, 2, 1, 1, 2>>>> }

TopRecords == { MkRecord(1, t[1], "Glass Bottles", t[2]) : t \in TopFacilities }

\* a second record of DC002, which brings its rate to 50 percent
TopSecondRecords ==
    { MkRecord(2, t[1], "Glass Bottles", <<2, 2, 2, 0, 0>>) :
        t \in {u \in TopFacilities : u[1].id = "DC002"} }

\* the sequences of at most n distinct elements of S
RECURSIVE Arrangements(_, _)
Arrangements(S, n) ==
    IF n = 0 THEN {<<>>}
    ELSE {<<>>} \cup
         UNION {{<<x>> \o s : s \in Arrangements(S \ {x}, n - 1)} : x \in S}

\* selections with the records of at most MaxTopFacilities facilities in any
\* order, and possibly a second record of one of them
TopSelections ==
    { p \o e : p \in Arrangements(TopRecords, MaxTopFacilities) \ {<<>>},
               e \in SeqUpTo(TopSecondRecords, 1) }

-----------------------------------------------------------------------------
(* The views of a DataProcessor built from a list of records *)

InitAgg ==
    /\ data \in SeqUpTo(AggRecords, MaxRecs)
    /\ df = ToDataframe(data)
    /\ base_data = None
    /\ simulated_data = None
    /\ df_filtered = None
    /\ heap = <<>>
    /\ calls = 0
    /\ args = <<>>
    /\ op = "DataProcessor"
    /\ result = NoResult

Return(value) ==
    /\ args' = <<>>
    /\ result' = value
    /\ UNCHANGED
         <<data, df, base_data, simulated_data, df_filtered, heap, calls>>

CalculateKpis ==
    /\ op' = "calculate_kpis"
    /\ Return(calculate_kpis(df))

GetFacilityPerformance ==
    /\ op' = "get_facility_performance"
    /\ Return(get_facility_performance(df))

GetPackagingPerformance ==
    /\ op' = "get_packaging_performance"
    /\ Return(get_packaging_performance(df))

GetTimeSeriesData ==
    /\ op' = "get_time_series_data"
    /\ Return(get_time_series_data(df))

\* the page stops before this when its frame is empty
FacilityTypeSummary ==
    /\ df.rows # <<>>
    /\ op' = "facility_type_summary"
    /\ Return(facility_type_summary(df))

NextAgg ==
    \/ CalculateKpis
    \/ GetFacilityPerformance
    \/ GetPackagingPerformance
    \/ GetTimeSeriesData
    \/ FacilityTypeSummary

SpecAgg == InitAgg /\ [][NextAgg]_vars

-----------------------------------------------------------------------------
(* The three views alone, over records of two dates, two facilities and two *)
(* packaging types with two different sets of counts                        *)

MergeRecords ==
    { MkRecord(d, f, p, c) :
        d \in Dates, f \in Facilities, p \in PackagingTypes,
        c \in {<<2, 1, 1, 0, 1>>, <<2, 1, 1, 0, 2>>} }

InitMerge ==
    /\ data \in SeqUpTo(MergeRecords, MaxRecs)
    /\ df = ToDataframe(data)
    /\ base_data = None
    /\ simulated_data = None
    /\ df_filtered = None
    /\ heap = <<>>
    /\ calls = 0
    /\ args = <<>>
    /\ op = "DataProcessor"
    /\ result = NoResult

NextMerge ==
    \/ GetFacilityPerformance
    \/ GetPackagingPerformance
    \/ GetTimeSeriesData

SpecMerge == InitMerge /\ [][NextMerge]_vars

-----------------------------------------------------------------------------
(* The sustainability report's metrics, over a loaded frame *)

\* records of both packaging types, with the counts the views group and
\* counts that break one of the two identities
ReportRecords ==
    { MkRecord(1, f, p, c) :
        f \in {x \in Facilities : x.id = "BR001"},
        p \in PackagingTypes,
        c \in AggCounts \cup InvalidCounts }

InitReport ==
    /\ data = <<>>
    /\ df \in {Frame(rows) : rows \in SeqUpTo(ReportRecords, MaxRecs)}
    /\ base_data = None
    /\ simulated_data = None
    /\ df_filtered = None
    /\ heap = <<>>
    /\ calls = 0
    /\ args = <<>>
    /\ op = "load_data"
    /\ result = NoResult

\* main of the report, once through after load_data; it returns before the
\* call when its selection is empty
CalculateEnvironmentalImpact ==
    /\ op = "load_data"
    /\ df.rows # <<>>
    /\ op' = "calculate_environmental_impact"
    /\ Return(calculate_environmental_impact(df))

NextReport == CalculateEnvironmentalImpact

SpecReport == InitReport /\ [][NextReport]_vars

-----------------------------------------------------------------------------
(* The dashboard's top facilities, over a non-empty selection *)

InitTop ==
    /\ data = <<>>
    /\ df \in {Frame(rows) : rows \in TopSelections}
    /\ base_data = None
    /\ simulated_data = None
    /\ df_filtered = None
    /\ heap = <<>>
    /\ calls = 0
    /\ args = <<>>
    /\ op = "load_data"
    /\ result = NoResult

TopFacilitiesByReuseRate ==
    /\ op = "load_data"
    /\ op' = "top_facilities"
    /\ Return(top_facilities(df))

NextTop == TopFacilitiesByReuseRate

SpecTop == InitTop /\ [][NextTop]_vars

-----------------------------------------------------------------------------
(* The filters of the dashboard and of the simulation page, over a loaded   *)
(* frame that is not empty (the pages stop on an empty one)                 *)

MaxAppRecs == 3

\* records over three days, two facility types and two packaging types
AppRecords ==
    { MkRecord(t[1], CHOOSE f \in Facilities : f.id = t[2], t[3],
               <<2, 1, 1, 0, 1>>) :
        t \in { <<1, "BR001", "Glass Bottles">>,
                <<2, "BR001", "Glass Bottles">>,
                <<3, "BR001", "Glass Bottles">>,
                <<2, "DC001", "Glass Bottles">>,
                <<2, "BR001", "Aluminum Cans">>,
                <<3, "DC001", "Aluminum Cans">> } }

InitApp ==
    /\ data = <<>>
    /\ df \in {Frame(rows) : rows \in SeqUpTo(AppRecords, MaxAppRecs) \ {<<>>}}
    /\ base_data = None
    /\ simulated_data = None
    /\ df_filtered = None
    /\ heap = <<>>
    /\ calls = 0
    /\ args = <<>>
    /\ op = "load_data"
    /\ result = NoResult

\* main of the dashboard, once through after load_data: the sidebar's
\* values, the filters, the guard on an empty selection, then
\* processor.df = df_filtered and the KPIs
ApplyFilters ==
    /\ op = "load_data"
    /\ \E date_range \in DateInputs(df),
          facility_types \in SUBSET Unique(df, "facility_type"),
          packaging_types \in SUBSET Unique(df, "packaging_type") :
         LET filtered ==
               apply_filters(df, date_range, facility_types, packaging_types)
         IN  /\ df_filtered' = filtered
             /\ args' = <<date_range, facility_types, packaging_types>>
             /\ op' = "apply_filters"
             /\ result' = IF filtered.rows = <<>> THEN [kind |-> "warning"]
                          ELSE calculate_kpis(filtered)
             /\ UNCHANGED <<data, df, base_data, simulated_data, heap, calls>>

\* main of the simulation page, once through after load_data: the analysis
\* period
SelectPeriod ==
    /\ op = "load_data"
    /\ \E date_range \in DateInputs(df) :
         /\ df_filtered' = select_period(df, date_range)
         /\ args' = <<date_range>>
         /\ op' = "select_period"
         /\ result' = NoResult
         /\ UNCHANGED <<data, df, base_data, simulated_data, heap, calls>>

NextApp ==
    \/ ApplyFilters
    \/ SelectPeriod

SpecApp == InitApp /\ [][NextApp]_vars

-----------------------------------------------------------------------------
(* generate_sample_data: the loops over the dates, the facilities and the    *)
(* packaging types, then the filter and the frame                           *)

MaxGenDays == 1

\* a brewery, a distribution center and a recycling center
GenFacilities ==
    [i \in 1..3 |->
       (CHOOSE t \in TopFacilities :
          t[1].id = <<"BR001", "DC001", "RC001">>[i])[1]]

\* the iterations in loop order
GenLoop ==
    [i \in 1..(MaxGenDays * 3) |->
       [ date |-> ((i - 1) \div 3) + 1,
         facility |-> GenFacilities[((i - 1) % 3) + 1],
         packaging_type |-> "Glass Bottles" ]]

InitGen ==
    /\ data = <<>>
    /\ df = None
    /\ base_data = None
    /\ simulated_data = None
    /\ df_filtered = None
    /\ heap = <<>>
    /\ calls = 0
    /\ args = <<1>>
    /\ op = "generate_sample_data"
    /\ result = NoResult

\* one iteration; args holds the place in the loop, data the data_records
GenerateRecord ==
    /\ op = "generate_sample_data"
    /\ args[1] <= Len(GenLoop)
    /\ LET it == GenLoop[args[1]]
       IN  \E base_production \in BaseProductions(it.facility.type),
              return_draw \in ReturnRateDraws,
              reuse_draw \in ReuseRateDraws :
             data' = data \o GeneratedRecords(it.date, it.facility,
                                              it.packaging_type,
                                              base_production, return_draw,
                                              reuse_draw)
    /\ args' = <<args[1] + 1>>
    /\ UNCHANGED
         <<df, base_data, simulated_data, df_filtered, heap, calls, op, result>>

\* after the loops: the zero-production filter and pd.DataFrame(data_records)
ReturnGenerated ==
    /\ op = "generate_sample_data"
    /\ args[1] > Len(GenLoop)
    /\ df' = ToDataframe(SelectSeq(data, LAMBDA r : r.total_produced > 0))
    /\ op' = "return"
    /\ UNCHANGED
         <<data, base_data, simulated_data, df_filtered, heap, calls, args,
           result>>

NextGen ==
    \/ GenerateRecord
    \/ ReturnGenerated

SpecGen == InitGen /\ [][NextGen]_vars

-----------------------------------------------------------------------------
(* One session over a loaded frame: the dashboard's filters and views on    *)
(* its processor, and one SimulationEngine that serves several runs.        *)

MaxCalls == 2

\* fractions in percent: a preset-like improvement, and a regression
SessionScenarios == {<<15, 20>>, <<-50, -50>>}

SessionRecords ==
    { MkRecord(1, CHOOSE f \in Facilities : f.id = "BR001", t[1], t[2]) :
        t \in { <<"Glass Bottles", <<2, 2, 1, 1, 0>>>>,
                <<"Aluminum Cans", <<2, 1, 1, 0, 1>>>>,
                <<"Glass Bottles", WorkedExampleCounts>> } }

Views ==
    {"calculate_kpis", "get_facility_performance",
     "get_packaging_performance", "get_time_series_data"}

InitSession ==
    /\ data \in SeqUpTo(SessionRecords, MaxRecs) \ {<<>>}
    /\ heap = [s \in Sites |-> IF s = "load_data" THEN Frame(data) ELSE None]
    /\ df = "load_data"
    /\ base_data = NoRef
    /\ simulated_data = NoRef
    /\ df_filtered = NoRef
    /\ calls = 0
    /\ args = <<>>
    /\ op = "load_data"
    /\ result = NoResult

\* the dashboard's filters with the whole date range and every facility
\* type, then processor.df = df_filtered and the KPIs
FilterCall ==
    \E packaging_types \in SUBSET Unique(heap[df], "packaging_type") :
      LET date_range ==
            CHOOSE t \in DateInputs(heap[df]) :
              /\ Len(t) = 2
              /\ \A u \in DateInputs(heap[df]) :
                   Len(u) = 2 => t[1] <= u[1] /\ u[2] <= t[2]
          facility_types == Unique(heap[df], "facility_type")
          filtered ==
            apply_filters(heap[df], date_range, facility_types,
                          packaging_types)
      IN  /\ heap' = [heap EXCEPT !["df_filtered"] = filtered]
          /\ df_filtered' = "df_filtered"
          /\ args' = <<date_range, facility_types, packaging_types>>
          /\ op' = "apply_filters"
          /\ result' = IF filtered.rows = <<>> THEN [kind |-> "warning"]
                       ELSE calculate_kpis(filtered)
          /\ UNCHANGED <<data, df, base_data, simulated_data, calls>>

\* a view of the processor, whose df is the filtered frame
ViewCall ==
    /\ df_filtered # NoRef
    /\ heap[df_filtered].rows # <<>>
    /\ \E view \in Views :
         /\ op' = view
         /\ result' =
              CASE view = "calculate_kpis" -> calculate_kpis(heap[df_filtered])
                [] view = "get_facility_performance" ->
                     get_facility_performance(heap[df_filtered])
                [] view = "get_packaging_performance" ->
                     get_packaging_performance(heap[df_filtered])
                [] view = "get_time_series_data" ->
                     get_time_series_data(heap[df_filtered])
    /\ args' = <<>>
    /\ UNCHANGED
         <<data, df, base_data, simulated_data, df_filtered, heap, calls>>

\* SimulationEngine(df_period) with df_period = df: self.base_data =
\* base_data.copy()
EngineCall ==
    /\ base_data = NoRef
    /\ base_data' = CopyRef(df, "base_data")
    /\ heap' = Copy(heap, df, "base_data")
    /\ op' = "SimulationEngine"
    /\ args' = <<>>
    /\ result' = NoResult
    /\ UNCHANGED <<data, df, simulated_data, df_filtered, calls>>

RunCall ==
    /\ base_data # NoRef
    /\ calls < MaxCalls
    /\ \E s \in SessionScenarios :
         LET out == run_scenario_on_heap(heap, base_data, s[1], s[2])
         IN  /\ heap' = out.heap
             /\ simulated_data' = out.simulated_data
             /\ result' = out.result
             /\ args' = s
    /\ calls' = calls + 1
    /\ op' = "run_scenario"
    /\ UNCHANGED <<data, df, base_data, df_filtered>>

NextSession ==
    \/ FilterCall
    \/ ViewCall
    \/ EngineCall
    \/ RunCall

SpecSession == InitSession /\ [][NextSession]_vars

-----------------------------------------------------------------------------
(* A SimulationEngine over a loaded frame, built anew for every run as on   *)
(* the simulation page.  The page's sliders give 0 to 0.5; run_scenario     *)
(* itself takes any float.                                                  *)

InitSim ==
    /\ data = <<>>
    /\ df \in {Frame(rows) : rows \in SeqUpTo(SimRecords, MaxRecs)}
    /\ base_data = None
    /\ simulated_data = None
    /\ df_filtered = None
    /\ heap = <<>>
    /\ calls = 0
    /\ args = <<>>
    /\ op = "load_data"
    /\ result = NoResult

\* SimulationEngine(df_period): base_data is a copy of the frame; the page
\* builds a new engine for every run
NewSimulationEngine ==
    /\ base_data' = df
    /\ op' = "SimulationEngine"
    /\ args' = <<>>
    /\ simulated_data' = None
    /\ result' = NoResult
    /\ UNCHANGED <<data, df, df_filtered, heap, calls>>

RunScenario ==
    /\ op = "SimulationEngine"
    /\ \E reuse_improvement \in ReuseImprovements,
          waste_reduction \in WasteReductions :
          /\ args' = <<reuse_improvement, waste_reduction>>
          /\ simulated_data' =
               IF base_data.columns
               THEN Frame(Simulate(base_data.rows,
                                   reuse_improvement, waste_reduction))
               ELSE None
          /\ result' =
               run_scenario(base_data, reuse_improvement, waste_reduction)
    /\ op' = "run_scenario"
    /\ UNCHANGED <<data, df, base_data, df_filtered, heap, calls>>

NextSim ==
    \/ NewSimulationEngine
    \/ RunScenario

SpecSim == InitSim /\ [][NextSim]_vars

-----------------------------------------------------------------------------
(* Properties *)

AllValid(rows) == \A i \in 1..Len(rows) : IsValid(rows[i])

NonNegative(rows) ==
    \A i \in 1..Len(rows) :
        /\ rows[i].total_produced >= 0 /\ rows[i].total_returned >= 0
        /\ rows[i].total_reused >= 0 /\ rows[i].total_recycled >= 0
        /\ rows[i].total_waste >= 0

\* floor of num/den for den > 0
FloorDiv(num, den) == num \div den

\* num/den is a whole number
Whole(num, den) == num % den = 0

RanScenario == op = "run_scenario" /\ result.kind = "ScenarioResult"

Base == base_data.rows

Sim == simulated_data.rows

\* the summed total_recycled of the records of the group a row stands for
GroupRecycled(by, k) ==
    ColSum(Members(df.rows, by, k), "total_recycled")

\* C1: when every record of a non-empty collection satisfies
\* total_waste = total_produced - total_returned and
\* total_returned = total_reused + total_recycled, so do the summed totals
\* of every row of the groupings by facility, by packaging type, by date
\* and by facility type.  Only the grouping by facility type carries the
\* summed total_recycled in its rows; for the other three the second
\* identity is stated on the summed total_recycled of the row's group.
C1_GroupingPreservesIdentities ==
    (df.rows # <<>> /\ AllValid(df.rows)) =>
      /\ op \in {"get_facility_performance", "get_packaging_performance",
                 "get_time_series_data", "facility_type_summary"} =>
           /\ result.kind = "DataFrame"
           /\ result.rows # <<>>
           /\ \A i \in 1..Len(result.rows) :
                result.rows[i].total_waste =
                  result.rows[i].total_produced - result.rows[i].total_returned
      /\ op = "facility_type_summary" =>
           \A i \in 1..Len(result.rows) :
             result.rows[i].total_returned =
               result.rows[i].total_reused + result.rows[i].total_recycled
      /\ op = "get_facility_performance" =>
           \A i \in 1..Len(result.rows) :
             result.rows[i].total_returned =
               result.rows[i].total_reused
                 + GroupRecycled("facility",
                                 << result.rows[i].facility_id,
                                    result.rows[i].facility_name >>)
      /\ op = "get_packaging_performance" =>
           \A i \in 1..Len(result.rows) :
             result.rows[i].total_returned =
               result.rows[i].total_reused
                 + GroupRecycled("packaging_type", result.rows[i].packaging_type)
      /\ op = "get_time_series_data" =>
           \A i \in 1..Len(result.rows) :
             result.rows[i].total_returned =
               result.rows[i].total_reused
                 + GroupRecycled("date", result.rows[i].date)

\* C1 witness: a facility row that sums two valid records with waste
C1_Witness ==
    /\ op = "get_facility_performance"
    /\ Len(df.rows) = 2 /\ AllValid(df.rows)
    /\ result.kind = "DataFrame" /\ Len(result.rows) = 1
    /\ df.rows[1].total_waste > 0 /\ df.rows[2].total_waste > 0
    /\ result.rows[1].total_waste = 2

\* C2: over zero records calculate_kpis and the three aggregations return
\* a result whose every metric, efficiency_score included, is zero, and
\* never raise.
C2_EmptyInputAllZero ==
    df.rows = <<>> =>
      /\ op = "calculate_kpis" =>
           /\ result.kind = "KPIMetrics"
           /\ result.reuse_rate = Zero /\ result.waste_rate = Zero
           /\ result.recovery_rate = Zero
           /\ result.co2_saved_total = 0 /\ result.cost_savings_total = 0
           /\ result.efficiency_score = Zero
      /\ op \in {"get_facility_performance", "get_packaging_performance",
                 "get_time_series_data"} =>
           /\ result.kind = "DataFrame"
           /\ \A i \in 1..Len(result.rows) :
                /\ result.rows[i].total_produced = 0
                /\ result.rows[i].reuse_rate = Zero
                /\ result.rows[i].waste_rate = Zero

\* C3: with non-negative counts, run_scenario(0, 0) returns
\* projected_metrics equal to base_metrics in every field and every entry
\* of improvements is 0.
C3_IdentityScenario ==
    (RanScenario /\ args = <<0, 0>> /\ NonNegative(Base)) =>
      /\ result.projected_metrics = result.base_metrics
      /\ result.improvements.reuse_rate_improvement = Zero
      /\ result.improvements.waste_rate_reduction = Zero
      /\ result.improvements.additional_co2_saved = 0
      /\ result.improvements.additional_cost_savings = 0

\* C3 witness: the identity scenario ran on two records with reuse and waste
C3_Witness ==
    /\ RanScenario /\ args = <<0, 0>>
    /\ Len(Base) = 2
    /\ ColSum(Base, "total_reused") > 0 /\ ColSum(Base, "total_waste") > 0
    /\ result.base_metrics.reuse_rate # Zero

WorkedExample ==
    << MkRecord(1, CHOOSE f \in Facilities : f.id = "BR001",
                "Glass Bottles", WorkedExampleCounts) >>

\* C4: for the single record produced=1000, returned=800, reused=560,
\* recycled=240, waste=200, run_scenario(0.15, 0.20) gives projected reused
\* 644, waste 160, recycled 156, additional_co2_saved 62.0 and
\* additional_cost_savings 12.4 (monetary values in hundredths).
C4_WorkedExample ==
    (RanScenario /\ Base = WorkedExample /\ args = <<15, 20>>) =>
      /\ Len(Sim) = 1
      /\ Sim[1].total_reused = 644
      /\ Sim[1].total_waste = 160
      /\ Sim[1].total_recycled = 156
      /\ result.improvements.additional_co2_saved = 6200
      /\ result.improvements.additional_cost_savings = 1240

\* C4 witness: the worked example ran
C4_Witness ==
    /\ RanScenario /\ Base = WorkedExample /\ args = <<15, 20>>
    /\ Sim[1].total_reused = 644

\* the projection of section 4.4 applied once to the whole-dataset sums
SumsReused == FloorDiv(ColSum(Base, "total_reused") * (100 + args[1]), 100)

SumsWaste == FloorDiv(ColSum(Base, "total_waste") * (100 - args[2]), 100)

SumsRecycled == Max(0, ColSum(Base, "total_returned") - SumsReused)

SumsDelta ==
    (SumsReused - ColSum(Base, "total_reused"))
      + (ColSum(Base, "total_waste") - SumsWaste)

SumsCo2 == ColSum(Base, "co2_saved") + SumsDelta * 50

SumsCost == ColSum(Base, "cost_savings") + SumsDelta * 10

SumsMetrics ==
    [ reuse_rate |-> GuardedRate(SumsReused, ColSum(Base, "total_produced")),
      waste_rate |-> GuardedRate(SumsWaste, ColSum(Base, "total_produced")),
      co2_saved |-> SumsCo2,
      cost_savings |-> SumsCost ]

PerRecordEqualsSums ==
    /\ ColSum(Sim, "total_reused") = SumsReused
    /\ ColSum(Sim, "total_waste") = SumsWaste
    /\ ColSum(Sim, "co2_saved") = SumsCo2
    /\ ColSum(Sim, "cost_savings") = SumsCost
    /\ result.projected_metrics = SumsMetrics

\* C5 as stated: for every collection and every parameter pair, projecting
\* each record and summing gives the same projected totals (reused, waste,
\* recycled, co2, cost) and metrics as projecting the whole-dataset sums.
C5_PerRecordEqualsSums_AsStated ==
    RanScenario =>
      /\ PerRecordEqualsSums
      /\ ColSum(Sim, "total_recycled") = SumsRecycled

\* nothing is cut off: every record's scaled reused and scaled waste are
\* whole numbers
NothingTruncated ==
    \A i \in 1..Len(Base) :
        /\ Whole(Base[i].total_reused * (100 + args[1]), 100)
        /\ Whole(Base[i].total_waste * (100 - args[2]), 100)

NoRecycledClamp ==
    \A i \in 1..Len(Base) : Sim[i].total_reused <= Base[i].total_returned

\* C5 amended: the two agree in reused, waste, co2, cost and the metrics
\* whenever every record's scaled reused and scaled waste are whole numbers,
\* and in recycled as well when moreover no record's projected reused
\* exceeds its returned count.
C5_PerRecordEqualsSums ==
    (RanScenario /\ NothingTruncated) =>
      /\ PerRecordEqualsSums
      /\ NoRecycledClamp => ColSum(Sim, "total_recycled") = SumsRecycled

\* C5 witness: two records, both parameters changing whole-numbered counts
C5_Witness ==
    /\ RanScenario /\ NothingTruncated /\ NoRecycledClamp
    /\ Len(Base) = 2
    /\ args = <<-50, -50>>
    /\ Base[1].total_reused = 2 /\ Base[2].total_waste = 2
    /\ ColSum(Sim, "total_reused") = 1 /\ ColSum(Sim, "total_waste") = 3
    /\ ColSum(Sim, "total_recycled") = SumsRecycled

\* C6: every record of the projected dataset built from valid base records
\* satisfies total_returned = total_reused + total_recycled, for every
\* reuse_improvement and waste_reduction.
C6_ProjectedReturnedIdentity ==
    (RanScenario /\ AllValid(Base)) =>
      \A i \in 1..Len(Sim) :
        Sim[i].total_returned = Sim[i].total_reused + Sim[i].total_recycled

\* C7 as stated: every record of the projected dataset built from valid
\* base records satisfies total_waste = total_produced - total_returned,
\* for every reuse_improvement and waste_reduction.
C7_ProjectedWasteIdentity_AsStated ==
    (RanScenario /\ AllValid(Base)) =>
      \A i \in 1..Len(Sim) :
        Sim[i].total_waste = Sim[i].total_produced - Sim[i].total_returned

\* x/100 with its fractional part dropped
Dropped(x) == IF x >= 0 THEN FloorDiv(x, 100) ELSE -FloorDiv(-x, 100)

\* C7 amended: the projected total_waste of a valid base record is
\* (total_produced - total_returned) * (1 - waste_reduction) with its
\* fractional part dropped, so the record satisfies
\* total_waste = total_produced - total_returned for waste_reduction = 0
\* (for every reuse_improvement), and otherwise only when the scaling
\* leaves its waste unchanged.
C7_ProjectedWasteIdentity ==
    (RanScenario /\ AllValid(Base)) =>
      \A i \in 1..Len(Sim) :
        /\ Sim[i].total_waste =
             Dropped((Sim[i].total_produced - Sim[i].total_returned)
                       * (100 - args[2]))
        /\ args[2] = 0 =>
             Sim[i].total_waste =
               Sim[i].total_produced - Sim[i].total_returned

\* C7 witness: a valid record with waste, reuse improved, waste_reduction 0
C7_Witness ==
    /\ RanScenario /\ AllValid(Base) /\ Len(Base) >= 1
    /\ args = <<50, 0>>
    /\ Base[1].total_waste = 1 /\ Base[1].total_reused = 1
    /\ Sim[1].total_waste = Sim[1].total_produced - Sim[1].total_returned

\* C8: for every record and every parameter pair the projected total_waste
\* and the projected total_recycled are both >= 0.
C8_ProjectedNonNegative ==
    RanScenario =>
      \A i \in 1..Len(Sim) :
        Sim[i].total_waste >= 0 /\ Sim[i].total_recycled >= 0

\* C9 as stated: for every parameter value, negative ones included,
\* projected total_reused is the floor of base_reused *
\* (1 + reuse_improvement) and projected total_waste is the floor of
\* base_waste * (1 - waste_reduction).
C9_Floor_AsStated ==
    RanScenario =>
      \A i \in 1..Len(Sim) :
        /\ Sim[i].total_reused =
             FloorDiv(Base[i].total_reused * (100 + args[1]), 100)
        /\ Sim[i].total_waste =
             FloorDiv(Base[i].total_waste * (100 - args[2]), 100)

\* C9 amended: projected total_reused is base_reused *
\* (1 + reuse_improvement) with its fractional part dropped, and projected
\* total_waste is base_waste * (1 - waste_reduction) with its fractional
\* part dropped: the floor when the product is >= 0, the ceiling when it is
\* negative; never a rounding to nearest.
C9_Truncation ==
    RanScenario =>
      \A i \in 1..Len(Sim) :
        LET x == Base[i].total_reused * (100 + args[1])
            y == Base[i].total_waste * (100 - args[2])
        IN  /\ x >= 0 => Sim[i].total_reused = FloorDiv(x, 100)
            /\ x < 0 => Sim[i].total_reused = -FloorDiv(-x, 100)
            /\ y >= 0 => Sim[i].total_waste = FloorDiv(y, 100)
            /\ y < 0 => Sim[i].total_waste = -FloorDiv(-y, 100)

\* C9 witness: a product of 1.5 cut to 1 and a product of -0.5 cut to 0
C9_Witness ==
    /\ RanScenario /\ Len(Base) >= 1
    /\ args = <<50, 150>>
    /\ Base[1].total_reused = 1 /\ Sim[1].total_reused = 1
    /\ Base[1].total_waste = 1 /\ Sim[1].total_waste = 0

\* C10: run_scenario leaves total_produced and total_returned of every
\* record unchanged in the projected dataset; only total_reused,
\* total_recycled, total_waste, co2_saved and cost_savings may differ.
C10_Frame ==
    RanScenario =>
      /\ Len(Sim) = Len(Base)
      /\ \A i \in 1..Len(Sim) :
           Sim[i] =
             [Base[i] EXCEPT
                !.total_reused = Sim[i].total_reused,
                !.total_recycled = Sim[i].total_recycled,
                !.total_waste = Sim[i].total_waste,
                !.co2_saved = Sim[i].co2_saved,
                !.cost_savings = Sim[i].cost_savings]

\* C10 witness: a run that changed reused, recycled, waste and the savings
C10_Witness ==
    /\ RanScenario /\ Len(Base) >= 1
    /\ Base[1].total_produced > 0 /\ Base[1].total_returned > 0
    /\ Sim[1].total_reused # Base[1].total_reused
    /\ Sim[1].total_recycled # Base[1].total_recycled
    /\ Sim[1].total_waste # Base[1].total_waste
    /\ Sim[1].co2_saved # Base[1].co2_saved

AggregationOps ==
    {"get_facility_performance", "get_packaging_performance",
     "get_time_series_data", "facility_type_summary"}

\* C11: in every row of every aggregation output, when the group's summed
\* total_produced is 0 each derived rate of the row (reuse_rate, waste_rate,
\* recovery_rate) is 0, not an undefined or infinite value.
C11_ZeroProducedZeroRates ==
    (op \in AggregationOps /\ result.kind = "DataFrame") =>
      \A i \in 1..Len(result.rows) :
        result.rows[i].total_produced = 0 =>
          /\ result.rows[i].reuse_rate = Zero
          /\ result.rows[i].waste_rate = Zero
          /\ op = "get_facility_performance" =>
               result.rows[i].recovery_rate = Zero
          /\ op = "facility_type_summary" =>
               result.rows[i].return_rate = Zero

\* C12: get_time_series_data has exactly one row per distinct date of the
\* input records, and its rows are in strictly ascending date order,
\* whatever the order of the input records.
C12_TimeSeriesDates ==
    (op = "get_time_series_data" /\ result.kind = "DataFrame") =>
      /\ {result.rows[i].date : i \in 1..Len(result.rows)} =
           {df.rows[i].date : i \in 1..Len(df.rows)}
      /\ \A i, j \in 1..Len(result.rows) :
           i < j => result.rows[i].date < result.rows[j].date

\* C12 witness: records given latest date first come out earliest first
C12_Witness ==
    /\ op = "get_time_series_data" /\ result.kind = "DataFrame"
    /\ Len(df.rows) = 2
    /\ df.rows[1].date > df.rows[2].date
    /\ Len(result.rows) = 2
    /\ result.rows[1].date = df.rows[2].date

FacilityIds == {df.rows[i].facility_id : i \in 1..Len(df.rows)}

\* the place of a facility's first record in the input
FirstAppearance(id) ==
    CHOOSE i \in 1..Len(df.rows) :
      /\ df.rows[i].facility_id = id
      /\ \A j \in 1..(i - 1) : df.rows[j].facility_id # id

\* the reuse rate of a facility, from its records
FacilityReuse(id) ==
    LET m == SelectSeq(df.rows, LAMBDA r : r.facility_id = id)
    IN  <<ColSum(m, "total_reused"), ColSum(m, "total_produced")>>

\* the rows are min(5, groups) distinct facilities, each with its rate, in
\* non-increasing order of rate, and no facility left out has a higher rate
TopRowsDescending ==
    /\ result.kind = "DataFrame"
    /\ Len(result.rows) =
         IF Cardinality(FacilityIds) < 5 THEN Cardinality(FacilityIds) ELSE 5
    /\ \A i \in 1..Len(result.rows) :
         /\ result.rows[i].facility_id \in FacilityIds
         /\ result.rows[i].reuse_rate.n
              * FacilityReuse(result.rows[i].facility_id)[2] =
            100 * FacilityReuse(result.rows[i].facility_id)[1]
              * result.rows[i].reuse_rate.d
    /\ \A i, j \in 1..Len(result.rows) :
         i < j =>
           /\ result.rows[i].facility_id # result.rows[j].facility_id
           /\ result.rows[j].reuse_rate.n * result.rows[i].reuse_rate.d
                <= result.rows[i].reuse_rate.n * result.rows[j].reuse_rate.d
    /\ \A id \in FacilityIds :
         (\A i \in 1..Len(result.rows) : result.rows[i].facility_id # id) =>
           \A i \in 1..Len(result.rows) :
             100 * FacilityReuse(id)[1] * result.rows[i].reuse_rate.d
               <= result.rows[i].reuse_rate.n * FacilityReuse(id)[2]

\* C13 as stated: the top 5 by reuse_rate are min(5, groups) rows in
\* non-increasing reuse_rate order, rows with equal reuse_rate in the order
\* of their group's first appearance in the input records.
C13_TopFive_AsStated ==
    op = "top_facilities" =>
      /\ TopRowsDescending
      /\ \A i, j \in 1..Len(result.rows) :
           (i < j /\ result.rows[i].reuse_rate = result.rows[j].reuse_rate) =>
             FirstAppearance(result.rows[i].facility_id)
               < FirstAppearance(result.rows[j].facility_id)

\* C13 amended: ... rows with equal reuse_rate in the row order of the
\* facility aggregation, which is ascending (facility_id, facility_name),
\* whatever the order of the input records.
C13_TopFive ==
    op = "top_facilities" =>
      /\ TopRowsDescending
      /\ \A i, j \in 1..Len(result.rows) :
           (i < j /\ result.rows[i].reuse_rate = result.rows[j].reuse_rate) =>
             StrRank(result.rows[i].facility_id)
               < StrRank(result.rows[j].facility_id)

\* C13 witness: six facilities, the tied ones given in descending id order;
\* five rows come back, the tied ones in ascending id order
C13_Witness ==
    /\ op = "top_facilities" /\ result.kind = "DataFrame"
    /\ Len(df.rows) = 6 /\ Cardinality(FacilityIds) = 6
    /\ df.rows[1].facility_id = "RC002" /\ df.rows[2].facility_id = "RC001"
    /\ df.rows[5].facility_id = "BR002" /\ df.rows[6].facility_id = "BR001"
    /\ Len(result.rows) = 5
    /\ result.rows[1].facility_id = "BR002"
    /\ result.rows[2].facility_id = "RC002"
    /\ result.rows[3].facility_id = "BR001"
    /\ result.rows[5].facility_id = "RC001"

\* the dataset with one record per row of the last aggregation output: each
\* record carries the row's group key and its summed columns
Reaggregated ==
    CASE op = "get_facility_performance" ->
           get_facility_performance(Frame(result.rows))
      [] op = "get_packaging_performance" ->
           get_packaging_performance(Frame(result.rows))
      [] op = "get_time_series_data" ->
           get_time_series_data(Frame(result.rows))

\* C14: aggregating the dataset rebuilt from an aggregation output (one
\* record per output row, with that row's group key and summed counts) with
\* the same grouping yields the same rows, totals and rates again.
C14_AggregationIdempotent ==
    ( /\ op \in {"get_facility_performance", "get_packaging_performance",
                 "get_time_series_data"}
      /\ result.kind = "DataFrame" ) =>
        Reaggregated = result

\* C14 witness: two records of two facilities but one packaging type were
\* merged into one row, which is then aggregated again
C14_Witness ==
    /\ op = "get_packaging_performance" /\ result.kind = "DataFrame"
    /\ Len(df.rows) = 2 /\ df.rows[1].facility_id # df.rows[2].facility_id
    /\ Len(result.rows) = 1
    /\ result.rows[1].total_produced = 4 /\ result.rows[1].total_reused = 2
    /\ Reaggregated.rows[1].total_produced = 4

\* C15: base_metrics and projected_metrics are the same function of the base
\* and of the projected dataset, and the improvements are
\* reuse_rate_improvement = projected - base reuse_rate,
\* waste_rate_reduction = base - projected waste_rate,
\* additional_co2_saved = projected - base co2 total,
\* additional_cost_savings = projected - base cost total.
C15_Improvements ==
    RanScenario =>
      LET b == calculate_scenario_kpis(Base)
          p == calculate_scenario_kpis(Sim)
          imp == result.improvements
      IN  /\ result.base_metrics = b
          /\ result.projected_metrics = p
          /\ RatAdd(b.reuse_rate, imp.reuse_rate_improvement) = p.reuse_rate
          /\ RatAdd(p.waste_rate, imp.waste_rate_reduction) = b.waste_rate
          /\ b.co2_saved + imp.additional_co2_saved = p.co2_saved
          /\ b.cost_savings + imp.additional_cost_savings = p.cost_savings

\* C15 witness: the worked example under +15% reuse and -20% waste: the reuse
\* rate goes from 56 to 64.4, the waste rate from 20 to 16
C15_Witness ==
    /\ RanScenario
    /\ Base = WorkedExample /\ args = <<15, 20>>
    /\ result.improvements.reuse_rate_improvement = Rat(42, 5)
    /\ result.improvements.waste_rate_reduction = RatInt(4)
    /\ result.improvements.additional_co2_saved > 0

\* delta is the first rate minus the second
DeltaHolds(delta, projected, base) == RatSub(projected, base) = delta

\* C16 as stated: every entry of the improvements equals projected - base of
\* its metric, for all four entries.
C16_ProjectedMinusBase_AsStated ==
    RanScenario =>
      LET b == result.base_metrics
          p == result.projected_metrics
          imp == result.improvements
      IN  /\ DeltaHolds(imp.reuse_rate_improvement, p.reuse_rate, b.reuse_rate)
          /\ DeltaHolds(imp.waste_rate_reduction, p.waste_rate, b.waste_rate)
          /\ imp.additional_co2_saved = p.co2_saved - b.co2_saved
          /\ imp.additional_cost_savings = p.cost_savings - b.cost_savings

\* C16 amended: reuse_rate_improvement, additional_co2_saved and
\* additional_cost_savings equal projected - base of the returned metrics;
\* waste_rate_reduction equals base - projected, positive when the waste
\* rate falls.
C16_ProjectedMinusBase ==
    RanScenario =>
      LET b == result.base_metrics
          p == result.projected_metrics
          imp == result.improvements
      IN  /\ DeltaHolds(imp.reuse_rate_improvement, p.reuse_rate, b.reuse_rate)
          /\ DeltaHolds(imp.waste_rate_reduction, b.waste_rate, p.waste_rate)
          /\ imp.additional_co2_saved = p.co2_saved - b.co2_saved
          /\ imp.additional_cost_savings = p.cost_savings - b.cost_savings

\* C16 witness: the worked example under -50% reuse and +50% waste: every
\* entry is negative, the waste entry because the waste rate rose
C16_Witness ==
    /\ RanScenario
    /\ Base = WorkedExample /\ args = <<-50, -50>>
    /\ result.improvements.reuse_rate_improvement = RatInt(-28)
    /\ result.improvements.waste_rate_reduction = RatInt(-10)
    /\ result.projected_metrics.waste_rate = RatInt(30)
    /\ result.improvements.additional_co2_saved < 0

ZeroMetrics ==
    [reuse_rate |-> Zero, waste_rate |-> Zero, co2_saved |-> 0,
     cost_savings |-> 0]

SumsEfficiency ==
    LET P == ColSum(data, "total_produced")
        R == ColSum(data, "total_returned")
        U == ColSum(data, "total_reused")
        W == ColSum(data, "total_waste")
    IN  IF P > 0 THEN Rat(40 * U + 30 * (P - W) + 30 * R, P) ELSE RatInt(30)

\* C18: for every record collection, calculate_kpis returns efficiency_score
\* = 0.4 * reuse_rate + 0.3 * (100 - waste_rate) + 0.3 * recovery_rate, the
\* rates being the whole-dataset sums of reused, waste and returned over the
\* summed produced, times 100 (0 when the summed produced is 0).
C18_EfficiencyScore ==
    op = "calculate_kpis" =>
      /\ result.kind = "KPIMetrics"
      /\ result.efficiency_score = SumsEfficiency

\* the circular score from the whole-dataset sums, recycling from the stored
\* total_recycled: with P > 0,
\* 0.5 * (100 U / P) + 0.3 * (100 C / P) + 0.2 * (100 - 100 W / P)
\*   = (50 U + 30 C + 20 (P - W)) / P; with P = 0 the rates are 0 and the
\* score is 0.2 * 100
SumsCircular ==
    LET P == ColSum(df.rows, "total_produced")
        U == ColSum(df.rows, "total_reused")
        C == ColSum(df.rows, "total_recycled")
        W == ColSum(df.rows, "total_waste")
    IN  IF P > 0 THEN Rat(50 * U + 30 * C + 20 * (P - W), P) ELSE RatInt(20)

\* C19: for every non-empty record collection the sustainability report
\* computes circular_score = 0.5 * reuse_rate + 0.3 * recycling_rate
\* + 0.2 * (100 - waste_rate), recycling_rate being the summed stored
\* total_recycled over the summed produced, times 100 (0 when that is 0).
C19_CircularScore ==
    (op = "calculate_environmental_impact" /\ df.rows # <<>>) =>
      /\ result.kind = "dict" /\ ~result.empty
      /\ result.recycling_rate =
           GuardedRate(ColSum(df.rows, "total_recycled"),
                       ColSum(df.rows, "total_produced"))
      /\ result.circular_score = SumsCircular

\* C19 witness: two records with 4 produced, 4 returned, 2 reused and no
\* waste, one of them with no recycled units stored: the recycling rate is
\* 25, not 50, and the score is 25 + 7.5 + 20
C19_Witness ==
    /\ op = "calculate_environmental_impact"
    /\ Len(df.rows) = 2
    /\ result.total_produced = 4 /\ result.total_returned = 4
    /\ result.total_reused = 2 /\ result.total_recycled = 1
    /\ result.total_waste = 0
    /\ result.recycling_rate = RatInt(25)
    /\ result.circular_score = Rat(105, 2)

\* the criteria of the last filtering hold of the i-th input record: the
\* date in the inclusive range, and on the dashboard the facility type and
\* the packaging type in the selected sets
Matches(i) ==
    /\ args[1][1] <= df.rows[i].date /\ df.rows[i].date <= args[1][2]
    /\ op = "apply_filters" =>
         /\ df.rows[i].facility_type \in args[2]
         /\ df.rows[i].packaging_type \in args[3]

\* how many of the first i input records match
MatchesUpTo(i) == Cardinality({j \in 1..i : Matches(j)})

\* C20: the filtered view contains exactly the input records whose date is
\* in the inclusive range [start, end], whose facility_type is in the
\* selected facility types and whose packaging_type is in the selected
\* packaging types, in their original relative order; criteria that match
\* no record give an empty view and nothing is raised.
C20_FilteredView ==
    (op \in {"apply_filters", "select_period"} /\ Len(args[1]) = 2) =>
      /\ Len(df_filtered.rows) = MatchesUpTo(Len(df.rows))
      /\ \A i \in 1..Len(df.rows) :
           Matches(i) => df_filtered.rows[MatchesUpTo(i)] = df.rows[i]
      /\ result.kind # "raise"
      /\ MatchesUpTo(Len(df.rows)) = 0 =>
           df_filtered.rows = <<>> /\ df_filtered.columns

\* C20 witness: of three records the dashboard keeps the first and the
\* third, the second being outside the selected packaging types
C20_Witness ==
    /\ op = "apply_filters" /\ Len(args[1]) = 2
    /\ Len(df.rows) = 3 /\ df.rows[1] # df.rows[3]
    /\ df.rows[2].packaging_type \notin args[3]
    /\ df.rows[3].date = args[1][2] /\ df.rows[1].date < df.rows[3].date
    /\ Len(df_filtered.rows) = 2
    /\ df_filtered.rows[1] = df.rows[1] /\ df_filtered.rows[2] = df.rows[3]
    /\ result.kind = "KPIMetrics"

\* C21: after any sequence of filter, aggregation, calculate_kpis and
\* run_scenario calls, the original record collection and the engine's
\* base_data hold exactly the values they held before the first call.
C21_OriginalsUnchanged ==
    /\ heap[df] = Frame(data)
    /\ base_data # NoRef => heap[base_data] = Frame(data)

\* C21 witness: after a filter, two runs of the engine and a view, the
\* simulated frame differs from base_data, which is as it was loaded
C21_Witness ==
    /\ op = "get_packaging_performance" /\ result.kind = "DataFrame"
    /\ df_filtered # NoRef /\ calls = 2
    /\ heap[simulated_data].rows # data
    /\ heap[base_data].rows = data /\ heap[df].rows = data

\* C22: a run_scenario call returns what a first call on a new engine over
\* the same data returns for the same parameters, whatever calls were made
\* before it; so two calls with the same parameters return equal results.
C22_HistoryIndependent ==
    op = "run_scenario" =>
      result = run_scenario(Frame(data), args[1], args[2])

\* C22 witness: the second run of an engine, after a filter and a first run
\* that changed the reuse counts, gives the worked example's figures
C22_Witness ==
    /\ op = "run_scenario" /\ calls = 2 /\ df_filtered # NoRef
    /\ data = WorkedExample /\ args = <<15, 20>>
    /\ result.projected_metrics.reuse_rate = Rat(322, 5)
    /\ result.base_metrics.reuse_rate = RatInt(56)

\* the frame the last operation worked on
Operand == IF op = "run_scenario" THEN base_data ELSE df

\* C23: when an input record violates a record invariant (a negative count,
\* total_waste # total_produced - total_returned, or total_returned #
\* total_reused + total_recycled), calculate_kpis, the aggregations and
\* run_scenario raise an error and return no result.
C23_ViolationRaises ==
    ( /\ op \in AggregationOps \cup {"calculate_kpis", "run_scenario"}
      /\ ~AllValid(Operand.rows) ) =>
        result.kind = "raise"

\* the view the last operation ran, on another frame
SameView(frame) ==
    CASE op = "get_facility_performance" -> get_facility_performance(frame)
      [] op = "get_packaging_performance" -> get_packaging_performance(frame)
      [] op = "get_time_series_data" -> get_time_series_data(frame)

GroupedBy ==
    CASE op = "get_facility_performance" -> "facility"
      [] op = "get_packaging_performance" -> "packaging_type"
      [] op = "get_time_series_data" -> "date"

\* the group key and the six summed columns of an output row
GroupTotals(row) ==
    [ key |-> KeyOf(row, GroupedBy),
      total_produced |-> row.total_produced,
      total_returned |-> row.total_returned,
      total_reused |-> row.total_reused,
      total_waste |-> row.total_waste,
      co2_saved |-> row.co2_saved,
      cost_savings |-> row.cost_savings ]

\* the records at the places S of the input, in their order
PartAt(S) ==
    LET Place(p) ==
          CHOOSE i \in S : Cardinality({j \in S : j <= i}) = p
    IN  [p \in 1..Cardinality(S) |-> df.rows[Place(p)]]

\* the per-group sums of the part at S and of the rest, each aggregated on
\* its own, added group by group; the groups in ascending key order
Merged(S) ==
    LET a == SameView(Frame(PartAt(S))).rows
        b == SameView(Frame(PartAt((1..Len(df.rows)) \ S))).rows
        both == a \o b
        keys == {KeyOf(both[i], GroupedBy) : i \in 1..Len(both)}
        Ordered(p) ==
          CHOOSE k \in keys :
            Cardinality({j \in keys :
               RankOf(j, GroupedBy) < RankOf(k, GroupedBy)}) = p - 1
        Sum(k, col) ==
          SumSeq([i \in 1..Len(both) |->
                    IF KeyOf(both[i], GroupedBy) = k THEN both[i][col] ELSE 0])
    IN  [p \in 1..Cardinality(keys) |->
           [ key |-> Ordered(p),
             total_produced |-> Sum(Ordered(p), "total_produced"),
             total_returned |-> Sum(Ordered(p), "total_returned"),
             total_reused |-> Sum(Ordered(p), "total_reused"),
             total_waste |-> Sum(Ordered(p), "total_waste"),
             co2_saved |-> Sum(Ordered(p), "co2_saved"),
             cost_savings |-> Sum(Ordered(p), "cost_savings") ]]

\* the input in another order: p is a permutation of its places
Reordered(p) == [i \in 1..Len(df.rows) |-> df.rows[p[i]]]

Orders(n) ==
    {p \in [1..n -> 1..n] : \A i, j \in 1..n : p[i] = p[j] => i = j}

SingleGroupRows ==
    { a.rows[1] :
        a \in { v \in { get_facility_performance(df),
                        get_packaging_performance(df),
                        get_time_series_data(df) } :
                  v.kind = "DataFrame" /\ Len(v.rows) = 1 } }

\* C25: for every record collection, one whose summed total_produced is 0
\* included, the reuse_rate and waste_rate of calculate_kpis, of
\* _calculate_scenario_kpis on the same data, and of an aggregation that
\* puts all records in a single group are equal.
C25_OneRateFormula ==
    (op = "calculate_kpis" /\ result.kind = "KPIMetrics") =>
      /\ calculate_scenario_kpis(df.rows).reuse_rate = result.reuse_rate
      /\ calculate_scenario_kpis(df.rows).waste_rate = result.waste_rate
      /\ \A row \in SingleGroupRows :
           /\ row.reuse_rate = result.reuse_rate
           /\ row.waste_rate = result.waste_rate

\* the record satisfies the invariants of section 3 and has production
Emitted(r) ==
    /\ r.total_produced > 0
    /\ r.total_returned >= 0 /\ r.total_reused >= 0
    /\ r.total_recycled >= 0 /\ r.total_waste >= 0
    /\ r.total_waste = r.total_produced - r.total_returned
    /\ r.total_returned = r.total_reused + r.total_recycled

\* C26: every record emitted by generate_sample_data has total_produced > 0,
\* all five counts >= 0, total_waste = total_produced - total_returned and
\* total_returned = total_reused + total_recycled, whatever the draws.
C26_GeneratedRecordsValid ==
    /\ \A i \in 1..Len(data) : Emitted(data[i])
    /\ op = "return" =>
         /\ Len(df.rows) = Len(data)
         /\ \A i \in 1..Len(df.rows) : Emitted(df.rows[i])

\* C26 witness: the frame of a weekend day at the low season, with draws
\* above both clipped ranges: 240 produced, 235 returned, 211 reused
C26_Witness ==
    /\ op = "return" /\ Len(df.rows) = 2
    /\ df.rows[1].total_produced = 240
    /\ df.rows[1].total_returned = 235 /\ df.rows[1].total_waste = 5
    /\ df.rows[1].total_reused = 211 /\ df.rows[1].total_recycled = 24

C28_ImprovementsNonNegative ==
    ( /\ RanScenario /\ NonNegative(Base)
      /\ args[1] >= 0 /\ args[2] >= 0 /\ args[2] <= 100 ) =>
        /\ RatLeq(Zero, result.improvements.reuse_rate_improvement)
        /\ RatLeq(Zero, result.improvements.waste_rate_reduction)
        /\ result.improvements.additional_co2_saved >= 0
        /\ result.improvements.additional_cost_savings >= 0

\* C28 witness: the worked example under +50% reuse and -100% waste: the
\* reuse rate rises by 28 points and the whole waste rate of 20 is removed
C28_Witness ==
    /\ RanScenario /\ Base = WorkedExample /\ args = <<50, 100>>
    /\ result.improvements.reuse_rate_improvement = RatInt(28)
    /\ result.improvements.waste_rate_reduction = RatInt(20)
    /\ result.improvements.additional_co2_saved = (280 + 200) * co2_factor

\* the sum of a column over the output rows of the last view
RollupTotal(col) == SumSeq([i \in 1..Len(result.rows) |-> result.rows[i][col]])

-----------------------------------------------------------------------------
(* The pages' main functions, once through after load_data: the selection,  *)
(* the guard on an empty one where the page has it, the KPI call and the    *)
(* first read of its result                                                 *)

\* the dates of one facility's rows after sort_values(['facility_id', 'date'])
FacilityDates(rows, facility_id) ==
    LET facility_data ==
          SortValuesDate(SelectSeq(rows, LAMBDA r : r.facility_id = facility_id))
    IN  [i \in 1..Len(facility_data) |-> facility_data[i].date]

\* facility_data['date'].diff().dt.days.dropna()
DateDiffs(dates) == [i \in 1..(Len(dates) - 1) |-> dates[i + 1] - dates[i]]

RECURSIVE RatSum(_)
RatSum(s) == IF s = <<>> THEN Zero ELSE RatAdd(Head(s), RatSum(Tail(s)))

\* np.mean(cycle_times) if cycle_times else 0, the mean date difference of
\* every facility that has more than one row
AvgCycleTime(rows) ==
    LET ids == {rows[i].facility_id : i \in 1..Len(rows)}
        many == {f \in ids : Len(FacilityDates(rows, f)) > 1}
        avg_cycle(f) ==
          LET date_diffs == DateDiffs(FacilityDates(rows, f))
          IN  Rat(SumSeq(date_diffs), Len(date_diffs))
        Ordered == CHOOSE s \in [1..Cardinality(many) -> many] :
                     \A f \in many : \E i \in DOMAIN s : s[i] = f
        cycle_times == [i \in 1..Cardinality(many) |-> avg_cycle(Ordered[i])]
    IN  IF cycle_times = <<>> THEN Zero
        ELSE RatScale(RatSum(cycle_times), 1, Len(cycle_times))

\* create_logistics_kpis(packaging_df): a bare return, that is None, for an
\* empty frame; 50 km a transaction and $0.15 a km (money in hundredths)
create_logistics_kpis(frame) ==
    IF frame.rows = <<>> THEN [kind |-> "None"]
    ELSE
      LET total_distance == Len(frame.rows) * 50
      IN  [ kind |-> "dict", empty |-> FALSE,
            avg_cycle_time |-> AvgCycleTime(frame.rows),
            total_distance |-> total_distance,
            total_fuel_cost |-> total_distance * 15,
            transport_efficiency |->
              IF total_distance > 0
              THEN Rat(ColSum(frame.rows, "total_returned"), total_distance)
              ELSE Zero ]

\* value[key] as a page reads a KPI result: None is not subscriptable and
\* {} has no key; the value is what the page goes on with
Subscript(value, key) ==
    IF value.kind = "None" THEN Raise("TypeError")
    ELSE IF value.kind = "dict" /\ value.empty THEN Raise("KeyError")
    ELSE value

\* the reverse logistics page's "Apply filters": the date, tested only if
\* the date input holds both ends, and the packaging type
logistics_filters(frame, date_range, packaging_types) ==
    Frame(SelectSeq(frame.rows, LAMBDA r :
            /\ Len(date_range) = 2 => InDateRange(r, date_range)
            /\ r.packaging_type \in packaging_types))

\* main of the reverse logistics page: no guard between the filters and
\* logistics_kpis['avg_cycle_time']
ReverseLogisticsMain ==
    /\ op = "load_data"
    /\ \E date_range \in DateInputs(df),
          packaging_types \in SUBSET Unique(df, "packaging_type") :
         LET filtered == logistics_filters(df, date_range, packaging_types)
             logistics_kpis == create_logistics_kpis(filtered)
         IN  /\ df_filtered' = filtered
             /\ args' = <<date_range, packaging_types>>
             /\ op' = "reverse_logistics"
             /\ result' = Subscript(logistics_kpis, "avg_cycle_time")
             /\ UNCHANGED <<data, df, base_data, simulated_data, heap, calls>>

\* main of the sustainability report with the button pressed: the period,
\* the warning and return on an empty one, then the metrics and the first
\* read of them, in generate_report_summary
SustainabilityReportMain ==
    /\ op = "load_data"
    /\ \E date_range \in DateInputs(df) :
         LET filtered == select_period(df, date_range)
         IN  /\ df_filtered' = filtered
             /\ args' = <<date_range>>
             /\ op' = "sustainability_report"
             /\ result' =
                  IF filtered.rows = <<>> THEN [kind |-> "warning"]
                  ELSE Subscript(calculate_environmental_impact(filtered),
                                 "total_produced")
             /\ UNCHANGED <<data, df, base_data, simulated_data, heap, calls>>

\* SIMULATION_SCENARIOS: the reuse improvement and the waste reduction of
\* Conservative, Moderate and Aggressive, in percent
PageScenarios == {<<5, 10>>, <<15, 20>>, <<25, 35>>}

\* main of the simulation page with the button pressed: the period, then
\* SimulationEngine(df_period).run_scenario and results['improvements']
SimulationToolMain ==
    /\ op = "load_data"
    /\ \E date_range \in DateInputs(df), scenario \in PageScenarios :
         LET df_period == select_period(df, date_range)
         IN  /\ df_filtered' = df_period
             /\ args' = <<date_range, scenario>>
             /\ op' = "simulation_tool"
             /\ result' = run_scenario(df_period, scenario[1], scenario[2])
             /\ UNCHANGED <<data, df, base_data, simulated_data, heap, calls>>

NextPages ==
    \/ ApplyFilters
    \/ ReverseLogisticsMain
    \/ SustainabilityReportMain
    \/ SimulationToolMain

SpecPages == InitApp /\ [][NextPages]_vars

PageOps ==
    {"apply_filters", "reverse_logistics", "sustainability_report",
     "simulation_tool"}

\* C30: in every page, when the applied filters select no record, the page
\* stops or warns before any KPI or aggregation result is used: no page
\* reads a field of a missing or empty KPI result (a None or {} returned
\* for empty input), so no page ends in the error of such a read.
C30_EmptySelectionGuarded ==
    (op \in PageOps /\ df_filtered.rows = <<>>) => result.kind # "raise"

=============================================================================
